---- MODULE Spec2Model ----
(***************************************************************************)
(* Model of crates/t-rec/resources/list.c: main() opens a connection to    *)
(* the X server, creates one window, sets WM_NAME and WM_ICON_NAME, maps   *)
(* the window, flushes the connection and spins in `while (1) {}`.         *)
(*                                                                         *)
(* The program's state is the position in main (pc) and its locals         *)
(* (connection, setup, screen, window).  The X client library is modelled  *)
(* by what each call does to the connection: requests are appended to the  *)
(* connection's output buffer (outq), xcb_flush writes the buffer to the   *)
(* socket (wire), the server takes requests off the socket one at a time   *)
(* and may send events, which wait unread on the connection (inq).         *)
(* calls is the history of library calls main has made.                    *)
(***************************************************************************)
EXTENDS Integers, Sequences, FiniteSets, TLC

VARIABLES pc, connection, setup, screen, window, calls, outq, wire, inq, server

vars == <<pc, connection, setup, screen, window, calls, outq, wire, inq, server>>

(* ------------------------------ bounds --------------------------------- *)
\* number of distinct connection handles xcb_connect may return
MaxHandles == 2
\* number of distinct resource ids xcb_generate_id may return
MaxIds == 2
\* number of events the server may deliver on the connection
MaxEvents == 2

(* ------------------------- program constants --------------------------- *)
NULL == 0

\* char *title = "Hello World !";  (the array the literal denotes, NUL included)
title == <<72, 101, 108, 108, 111, 32, 87, 111, 114, 108, 100, 32, 33, 0>>

\* char *iconTitle = "Hello World ! (iconified)";
iconTitle == <<72, 101, 108, 108, 111, 32, 87, 111, 114, 108, 100, 32, 33,
               32, 40, 105, 99, 111, 110, 105, 102, 105, 101, 100, 41, 0>>

\* arguments of xcb_create_window
WinX == 0
WinY == 0
WinWidth == 250
WinHeight == 150
WinBorderWidth == 10
WinDepth == 0
WinValueMask == 0
\* format argument of both xcb_change_property calls
PropFormat == 8

\* the root window and visual of the first screen, as the server's setup
\* reports them (xcb_window_t / xcb_visualid_t)
RootWindow == 100
RootVisual == 33

Handles == 1 .. MaxHandles
WindowIds == 1 .. MaxIds

\* "no connection yet" value of the local `connection`
NoConn == [handle |-> 0, has_error |-> FALSE]
\* "no screen yet" value of the local `screen` (NULL pointer)
NoScreen == [valid |-> FALSE, root |-> 0, root_visual |-> 0]

(* ------------------------------ strlen --------------------------------- *)
\* strlen(s): the number of bytes before the first NUL
RECURSIVE strlenFrom(_, _)
strlenFrom(s, i) ==
    IF i > Len(s) \/ s[i] = 0 THEN i - 1 ELSE strlenFrom(s, i + 1)

\* variant: the size of the array, terminating NUL included (sizeof)
strlenWithNul(s) == Len(s)

strlen(s) == strlenFrom(s, 1)

\* the data_len bytes a change-property request copies from `data`
Bytes(data, data_len) ==
    [i \in 1 .. (IF data_len <= Len(data) THEN data_len ELSE Len(data)) |-> data[i]]

(* ----------------------------- requests -------------------------------- *)
NoReq == [op |-> "None", window |-> 0, parent |-> 0, depth |-> 0,
          x |-> 0, y |-> 0, width |-> 0, height |-> 0, border_width |-> 0,
          class |-> "None", visual |-> 0, value_mask |-> 0,
          mode |-> "None", property |-> "None", type |-> "None",
          format |-> 0, data_len |-> 0, data |-> <<>>]

\* xcb_create_window (connection, 0, window, screen->root, 0, 0, 250, 150, 10,
\*                    XCB_WINDOW_CLASS_INPUT_OUTPUT, screen->root_visual, 0, NULL)
CreateWindowReq(w, scr) ==
    [NoReq EXCEPT !.op = "CreateWindow", !.window = w, !.parent = scr.root,
                  !.depth = WinDepth, !.x = WinX, !.y = WinY,
                  !.width = WinWidth, !.height = WinHeight,
                  !.border_width = WinBorderWidth,
                  !.class = "XCB_WINDOW_CLASS_INPUT_OUTPUT",
                  !.visual = scr.root_visual, !.value_mask = WinValueMask]

\* xcb_change_property (connection, XCB_PROP_MODE_REPLACE, window,
\*                      property, XCB_ATOM_STRING, 8, strlen (s), s)
ChangePropertyReq(w, property, s) ==
    [NoReq EXCEPT !.op = "ChangeProperty", !.mode = "XCB_PROP_MODE_REPLACE",
                  !.window = w, !.property = property,
                  !.type = "XCB_ATOM_STRING", !.format = PropFormat,
                  !.data_len = strlen(s), !.data = Bytes(s, strlen(s))]

\* variant: xcb_unmap_window in place of xcb_map_window
UnmapWindowReq(w) ==
    [NoReq EXCEPT !.op = "UnmapWindow", !.window = w]

\* xcb_map_window (connection, window)
MapWindowReq(w) ==
    [NoReq EXCEPT !.op = "MapWindow", !.window = w]

\* one entry of the history of library calls: the function, the connection
\* handle passed to it, the request it queues and the value it returns
Call(fn, c, req, ret) == [fn |-> fn, c |-> c, req |-> req, ret |-> ret]

(* ------------------------------ server --------------------------------- *)
NoWindow == [exists |-> FALSE, mapped |-> FALSE, parent |-> 0,
             width |-> 0, height |-> 0, wm_name |-> <<>>, wm_icon_name |-> <<>>]

\* a property's value after a change-property request in the given mode
ChangedValue(old, req) ==
    CASE req.mode = "XCB_PROP_MODE_REPLACE" -> req.data
      [] req.mode = "XCB_PROP_MODE_PREPEND" -> req.data \o old
      [] req.mode = "XCB_PROP_MODE_APPEND"  -> old \o req.data
      [] OTHER -> old

\* the server knows window w
Known(srv, w) == w \in DOMAIN srv.windows /\ srv.windows[w].exists

\* the server's window table after it has executed one request; a request
\* that names a window the server does not know is refused (BadWindow)
Execute(srv, req) ==
    LET w == req.window IN
    CASE req.op = "CreateWindow" /\ w \in DOMAIN srv.windows /\ ~Known(srv, w) ->
           [srv EXCEPT !.windows[w] =
               [NoWindow EXCEPT !.exists = TRUE, !.parent = req.parent,
                                !.width = req.width, !.height = req.height],
                       !.sequence = @ + 1]
      [] req.op = "ChangeProperty" /\ Known(srv, w)
                                   /\ req.property = "XCB_ATOM_WM_NAME" ->
           [srv EXCEPT !.windows[w].wm_name = ChangedValue(@, req),
                       !.sequence = @ + 1]
      [] req.op = "ChangeProperty" /\ Known(srv, w)
                                   /\ req.property = "XCB_ATOM_WM_ICON_NAME" ->
           [srv EXCEPT !.windows[w].wm_icon_name = ChangedValue(@, req),
                       !.sequence = @ + 1]
      [] req.op = "MapWindow" /\ Known(srv, w) ->
           [srv EXCEPT !.windows[w].mapped = TRUE, !.sequence = @ + 1]
      [] req.op = "UnmapWindow" /\ Known(srv, w) ->
           [srv EXCEPT !.windows[w].mapped = FALSE, !.sequence = @ + 1]
      [] req.op = "DestroyWindow" /\ Known(srv, w) ->
           [srv EXCEPT !.windows[w] = NoWindow, !.sequence = @ + 1]
      [] OTHER ->
           [srv EXCEPT !.errors = @ + 1, !.sequence = @ + 1]

(* ------------------------------- Init ---------------------------------- *)
Init ==
    /\ pc = "connect"
    /\ connection = NoConn
    /\ setup = NULL
    /\ screen = NoScreen
    /\ window = 0
    /\ calls = <<>>
    /\ outq = <<>>
    /\ wire = <<>>
    /\ inq = <<>>
    /\ server = [windows |-> [w \in WindowIds |-> NoWindow],
                 sequence |-> 0, errors |-> 0]

(* --------------------------- steps of main ----------------------------- *)
\* xcb_connection_t *connection = xcb_connect (NULL, NULL);
\* the call always returns a connection object; has_error tells whether the
\* connection could be opened
Connect ==
    /\ pc = "connect"
    /\ \E h \in Handles, err \in BOOLEAN :
         /\ connection' = [handle |-> h, has_error |-> err]
         /\ calls' = Append(calls, Call("xcb_connect", 0, NoReq, h))
    /\ pc' = "get_setup"
    /\ UNCHANGED <<setup, screen, window, outq, wire, inq, server>>

\* xcb_get_setup (connection): the setup data of the connection, NULL for a
\* connection that is in the error state
GetSetup ==
    /\ pc = "get_setup"
    /\ setup' = IF connection.has_error THEN NULL ELSE 1
    /\ calls' = Append(calls, Call("xcb_get_setup", connection.handle, NoReq, 0))
    /\ pc' = "roots_iterator"
    /\ UNCHANGED <<connection, screen, window, outq, wire, inq, server>>

\* xcb_screen_t *screen = xcb_setup_roots_iterator (...).data;
\* the iterator reads the fields of the setup it is given, so a NULL setup
\* is a null pointer dereference inside the library.  The read is made by
\* the library's compiled code at an address in the unmapped first page, so
\* the one outcome is that the process is killed (SIGSEGV) during this call
RootsIterator ==
    /\ pc = "roots_iterator"
    /\ calls' = Append(calls,
                  Call("xcb_setup_roots_iterator", connection.handle, NoReq, 0))
    /\ IF setup = NULL
         THEN /\ pc' = "crashed"
              /\ screen' = screen
         ELSE /\ pc' = "generate_id"
              /\ screen' = [valid |-> TRUE, root |-> RootWindow,
                            root_visual |-> RootVisual]
    /\ UNCHANGED <<connection, setup, window, outq, wire, inq, server>>

\* xcb_window_t window = xcb_generate_id (connection);
GenerateId ==
    /\ pc = "generate_id"
    /\ \E id \in WindowIds :
         /\ window' = id
         /\ calls' = Append(calls,
                       Call("xcb_generate_id", connection.handle, NoReq, id))
    /\ pc' = "create_window"
    /\ UNCHANGED <<connection, setup, screen, outq, wire, inq, server>>

\* a request call: the request is queued in the connection's output buffer
Request(fn, req, next) ==
    /\ calls' = Append(calls, Call(fn, connection.handle, req, 0))
    /\ outq' = Append(outq, req)
    /\ pc' = next
    /\ UNCHANGED <<connection, setup, screen, window, wire, inq, server>>

\* variant: the window is mapped right after it is created
CreateWindowThenMap ==
    /\ pc = "create_window"
    /\ Request("xcb_create_window", CreateWindowReq(window, screen), "map_window")

CreateWindow ==
    /\ pc = "create_window"
    /\ Request("xcb_create_window", CreateWindowReq(window, screen), "set_title")

\* variant: the icon title is not set
SetTitleOnly ==
    /\ pc = "set_title"
    /\ Request("xcb_change_property",
               ChangePropertyReq(window, "XCB_ATOM_WM_NAME", title),
               "map_window")

SetTitle ==
    /\ pc = "set_title"
    /\ Request("xcb_change_property",
               ChangePropertyReq(window, "XCB_ATOM_WM_NAME", title),
               "set_icon_title")

\* variant: the property is set on the root window
SetIconTitleOnRoot ==
    /\ pc = "set_icon_title"
    /\ Request("xcb_change_property",
               ChangePropertyReq(screen.root, "XCB_ATOM_WM_ICON_NAME", iconTitle),
               "map_window")

SetIconTitle ==
    /\ pc = "set_icon_title"
    /\ Request("xcb_change_property",
               ChangePropertyReq(window, "XCB_ATOM_WM_ICON_NAME", iconTitle),
               "map_window")

MapWindow ==
    /\ pc = "map_window"
    /\ Request("xcb_map_window", MapWindowReq(window), "flush")

\* variant: the connection is closed after the flush
FlushAndDisconnect ==
    /\ pc = "flush"
    /\ calls' = Append(Append(calls, Call("xcb_flush", connection.handle, NoReq, 0)),
                       Call("xcb_disconnect", connection.handle, NoReq, 0))
    /\ wire' = wire \o outq
    /\ outq' = <<>>
    /\ connection' = NoConn
    /\ pc' = "loop"
    /\ UNCHANGED <<setup, screen, window, inq, server>>

\* variant: the loop is entered without a flush
NoFlush ==
    /\ pc = "flush"
    /\ pc' = "loop"
    /\ UNCHANGED <<connection, setup, screen, window, calls, outq, wire, inq, server>>

\* xcb_flush (connection): everything queued is written to the socket
Flush ==
    /\ pc = "flush"
    /\ calls' = Append(calls, Call("xcb_flush", connection.handle, NoReq, 0))
    /\ wire' = wire \o outq
    /\ outq' = <<>>
    /\ pc' = "loop"
    /\ UNCHANGED <<connection, setup, screen, window, inq, server>>

\* variant: the loop ends and main returns 0
LoopReturns ==
    /\ pc = "loop"
    /\ pc' = "done"
    /\ UNCHANGED <<connection, setup, screen, window, calls, outq, wire, inq, server>>

\* variant: the loop takes an event off the connection and maps the window again
LoopHandlesEvent ==
    /\ pc = "loop"
    /\ inq # <<>>
    /\ inq' = Tail(inq)
    /\ calls' = Append(calls,
                  Call("xcb_map_window", connection.handle, MapWindowReq(window), 0))
    /\ wire' = Append(wire, MapWindowReq(window))
    /\ pc' = "loop"
    /\ UNCHANGED <<connection, setup, screen, window, outq, server>>

\* while (1) {}  -- one iteration of the empty loop
Loop ==
    /\ pc = "loop"
    /\ pc' = "loop"
    /\ UNCHANGED <<connection, setup, screen, window, calls, outq, wire, inq, server>>

(* ------------------------- steps of the server ------------------------- *)
\* the server executes the next request it has received
ServerExecute ==
    /\ wire # <<>>
    /\ server' = Execute(server, Head(wire))
    /\ wire' = Tail(wire)
    /\ UNCHANGED <<pc, connection, setup, screen, window, calls, outq, inq>>

\* the server sends an event to the client (events that no event mask
\* selects, such as MappingNotify); it carries the sequence number of the
\* last request the server has executed and waits unread on the connection
ServerEvent ==
    /\ connection # NoConn
    /\ ~connection.has_error
    /\ pc # "crashed"
    /\ Len(inq) < MaxEvents
    /\ inq' = Append(inq, [type |-> "MappingNotify", sequence |-> server.sequence])
    /\ UNCHANGED <<pc, connection, setup, screen, window, calls, outq, wire, server>>

Next ==
    \/ Connect
    \/ GetSetup
    \/ RootsIterator
    \/ GenerateId
    \/ CreateWindow
    \/ SetTitle
    \/ SetIconTitle
    \/ MapWindow
    \/ Flush
    \/ Loop
    \/ ServerExecute
    \/ ServerEvent

Spec == Init /\ [][Next]_vars

(* ---------------------- operators used by the claims ------------------- *)
IsPrefix(s, t) == Len(s) <= Len(t) /\ \A i \in 1 .. Len(s) : s[i] = t[i]

\* the names of the library calls made so far, in order
Fns == [i \in 1 .. Len(calls) |-> calls[i].fn]

\* the positions in calls of the calls to fn
CallsTo(fn) == {i \in 1 .. Len(calls) : calls[i].fn = fn}

\* the positions in calls of the calls that issue a request
RequestCalls == {i \in 1 .. Len(calls) : calls[i].req.op # "None"}

\* the positions in calls of the requests with opcode op
RequestsOf(op) == {i \in 1 .. Len(calls) : calls[i].req.op = op}

\* the change-property requests issued so far, in order
IsChangeProperty(c) == c.req.op = "ChangeProperty"
ChangeProperties == SelectSeq(calls, IsChangeProperty)

\* the step of the program a library call stands for ("" for a call that is
\* none of the five steps)
StepOf(c) ==
    CASE c.fn = "xcb_connect" -> "connect"
      [] c.req.op = "CreateWindow" -> "create window"
      [] c.req.op = "ChangeProperty" /\ c.req.property = "XCB_ATOM_WM_NAME"
           -> "set title"
      [] c.req.op = "ChangeProperty" /\ c.req.property = "XCB_ATOM_WM_ICON_NAME"
           -> "set icon title"
      [] c.req.op = "MapWindow" -> "map window"
      [] OTHER -> ""

IsStep(c) == StepOf(c) # ""
StepCalls == SelectSeq(calls, IsStep)
Steps == [i \in 1 .. Len(StepCalls) |-> StepOf(StepCalls[i])]

FiveSteps == <<"connect", "create window", "set title", "set icon title",
               "map window">>

NineCalls == <<"xcb_connect", "xcb_get_setup", "xcb_setup_roots_iterator",
               "xcb_generate_id", "xcb_create_window", "xcb_change_property",
               "xcb_change_property", "xcb_map_window", "xcb_flush">>

\* the bytes of "Hello World !" and of "Hello World ! (iconified)"
HelloWorld == <<72, 101, 108, 108, 111, 32, 87, 111, 114, 108, 100, 32, 33>>
HelloWorldIconified == HelloWorld \o
    <<32, 40, 105, 99, 111, 110, 105, 102, 105, 101, 100, 41>>

(* ------------------------------- claims -------------------------------- *)

\* C1: the steps of main happen in the order connect, create window, set
\* title, set icon title, map window, each at most once and all of them
\* before the loop is entered; the server never sees the window mapped
\* before it exists and carries both titles.
C1_StepsInOrder ==
    /\ IsPrefix(Steps, FiveSteps)
    /\ pc = "loop" => Steps = FiveSteps
    /\ \A w \in WindowIds :
         server.windows[w].mapped =>
           /\ server.windows[w].exists
           /\ server.windows[w].wm_name # <<>>
           /\ server.windows[w].wm_icon_name # <<>>

C1_Witness ==
    /\ pc = "loop"
    /\ window \in WindowIds
    /\ server.windows[window].mapped

\* C2: once the loop is entered the program stays in it: no step leaves the
\* loop, so `return 0` is never reached.
C2_LoopForever == [][pc = "loop" => pc' = "loop"]_vars

C2_Witness ==
    /\ pc = "loop"
    /\ wire = <<>>
    /\ server.sequence = 4
    /\ Len(inq) = MaxEvents

\* C3: at most one window id is generated and at most one create-window
\* request issued; every request issued is a create-window, change-property
\* or map-window request (no destroy, unmap, configure or resize); once the
\* server has executed everything the window exists, mapped, 250 by 150.
C3_WindowCreatedOnce ==
    /\ Cardinality(CallsTo("xcb_generate_id")) <= 1
    /\ Cardinality(RequestsOf("CreateWindow")) <= 1
    /\ \A i \in RequestCalls :
         calls[i].req.op \in {"CreateWindow", "ChangeProperty", "MapWindow"}
    /\ \A w \in WindowIds :
         server.windows[w].exists =>
           /\ w = window
           /\ server.windows[w].width = 250
           /\ server.windows[w].height = 150
    /\ (pc = "loop" /\ wire = <<>>) =>
           /\ server.windows[window].exists
           /\ server.windows[window].mapped

C3_Witness ==
    /\ pc = "loop"
    /\ wire = <<>>
    /\ server.windows[window].exists
    /\ Cardinality(RequestsOf("CreateWindow")) = 1

C6_LoopIgnoresInput ==
    [][pc = "loop" =>
         /\ UNCHANGED <<pc, connection, setup, screen, window, calls, outq>>
         /\ IsPrefix(inq, inq')
         /\ Len(wire') <= Len(wire)]_vars

C6_Witness ==
    /\ pc = "loop"
    /\ \E i \in 1 .. Len(inq) : inq[i].sequence = 4

\* C7 (as stated): the calls are always made in the same order and four or
\* five of them have been made when the loop is entered.
C7_FourOrFiveCalls ==
    /\ IsPrefix(Fns, NineCalls)
    /\ pc = "loop" => Len(calls) \in {4, 5}

\* C7 (amended): the calls are always made in the same order, without
\* branching, and nine of them have been made when the loop is entered:
\* xcb_connect, xcb_get_setup, xcb_setup_roots_iterator, xcb_generate_id,
\* xcb_create_window, xcb_change_property twice, xcb_map_window, xcb_flush.
C7_NineCalls ==
    /\ IsPrefix(Fns, NineCalls)
    /\ pc = "loop" => Len(calls) = 9

C7_Witness ==
    /\ pc = "loop"
    /\ Fns = NineCalls

\* C8: when the loop is reached exactly two change-property requests have
\* been issued, both in replace mode, type STRING, format 8: WM_NAME with
\* the 13 bytes "Hello World !" and WM_ICON_NAME with the 25 bytes
\* "Hello World ! (iconified)", the terminating NUL not counted; once the
\* server has executed them the two properties hold exactly these bytes.
C8_TitlesAreTheLiterals ==
    pc = "loop" =>
      /\ Len(ChangeProperties) = 2
      /\ \A i \in 1 .. 2 :
           /\ ChangeProperties[i].req.mode = "XCB_PROP_MODE_REPLACE"
           /\ ChangeProperties[i].req.type = "XCB_ATOM_STRING"
           /\ ChangeProperties[i].req.format = 8
           /\ ChangeProperties[i].req.window = window
      /\ ChangeProperties[1].req.property = "XCB_ATOM_WM_NAME"
      /\ ChangeProperties[1].req.data_len = 13
      /\ ChangeProperties[1].req.data = HelloWorld
      /\ ChangeProperties[2].req.property = "XCB_ATOM_WM_ICON_NAME"
      /\ ChangeProperties[2].req.data_len = 25
      /\ ChangeProperties[2].req.data = HelloWorldIconified
      /\ wire = <<>> =>
           /\ server.windows[window].wm_name = HelloWorld
           /\ server.windows[window].wm_icon_name = HelloWorldIconified

C8_Witness ==
    /\ pc = "loop"
    /\ wire = <<>>
    /\ server.windows[window].wm_name = HelloWorld
    /\ server.windows[window].wm_icon_name = HelloWorldIconified

\* C9: every request names the id that xcb_generate_id returned; the
\* create-window request comes after xcb_generate_id, every other request
\* after the create-window request for the same id; the server refuses none
\* of them.
C9_RequestsNameTheCreatedWindow ==
    /\ \A i \in RequestCalls :
         /\ \E g \in 1 .. (i - 1) :
              /\ calls[g].fn = "xcb_generate_id"
              /\ calls[g].ret = calls[i].req.window
         /\ calls[i].req.window = window
         /\ calls[i].req.op # "CreateWindow" =>
              \E j \in 1 .. (i - 1) :
                 /\ calls[j].req.op = "CreateWindow"
                 /\ calls[j].req.window = calls[i].req.window
    /\ server.errors = 0

C9_Witness ==
    /\ Cardinality(RequestCalls) = 4
    /\ server.sequence = 4
    /\ server.errors = 0

\* C10: xcb_flush is called at most once, and in the loop it has been
\* called exactly once, as the last call, after the four requests; the
\* output buffer is empty and each of the four requests is on the socket or
\* has been executed by the server.
C10_FlushedBeforeLoop ==
    /\ Cardinality(CallsTo("xcb_flush")) <= 1
    /\ pc = "loop" =>
         /\ Cardinality(CallsTo("xcb_flush")) = 1
         /\ calls[Len(calls)].fn = "xcb_flush"
         /\ Cardinality(RequestCalls) = 4
         /\ outq = <<>>
         /\ Len(wire) + server.sequence = 4

C10_Witness ==
    /\ pc = "loop"
    /\ outq = <<>>
    /\ Len(wire) = 4

====
